---- MODULE Spec2Model ----
(***************************************************************************)
(* Model of src/app.py: the /analyze request handler of the                *)
(* CaughtTweaking backend (text extraction per uploaded file, TF-IDF +     *)
(* cosine similarity over the corpus, thresholded and sorted pair report). *)
(*                                                                         *)
(* Number representation.  Python floats are modelled in fixed point:      *)
(*   - a similarity score s in [0,1] is the integer s * 10^5;              *)
(*   - a percentage p is the integer p * 10^5 (so score * 100 is a real    *)
(*     multiplication by 100 at that scale);                               *)
(*   - a reported (rounded) percentage is in hundredths: 4000 = 40.00;     *)
(*   - idf weights are in tenths (ln values taken from a table).           *)
(* Texts are sequences of one-character strings, file names are the        *)
(* sequences of their '.'-separated parts.                                 *)
(***************************************************************************)
EXTENDS Integers, Sequences, FiniteSets, TLC

\* ------------------------------------------------------------------ bounds
\* Largest explicitly enumerated upload list (besides the two long lists
\* of MAX_FILES and MAX_FILES + 1 files).
MaxUpload == 3
\* Largest corpus of the ranking-only specification.
MaxDocs == 3

\* ------------------------------------------------------- program constants
MIN_FILES == 2
MAX_FILES == 100
MIN_DOCUMENTS == 2
THRESHOLD == 40

\* --------------------------------------------------------------- utilities
Last(s) == s[Len(s)]

Front(s) == SubSeq(s, 1, Len(s) - 1)

Range(s) == {s[x] : x \in DOMAIN s}

RECURSIVE SumSet(_, _)
SumSet(S, w) ==
    IF S = {} THEN 0
    ELSE LET x == CHOOSE y \in S : TRUE
         IN  w[x] + SumSet(S \ {x}, w)

\* str.lower() on the characters and file-name parts the model uses.
Lower(c) ==
    CASE c = "T" -> "t"
      [] c = "TXT" -> "txt"
      [] c = "PDF" -> "pdf"
      [] OTHER -> c

LowerSeq(s) == [x \in DOMAIN s |-> Lower(s[x])]

IsSpace(c) == c \in {" ", "\n"}

\* str.strip(): leading and trailing whitespace removed.
RECURSIVE StripLeft(_)
StripLeft(s) ==
    IF s = <<>> THEN <<>>
    ELSE IF IsSpace(Head(s)) THEN StripLeft(Tail(s)) ELSE s

RECURSIVE StripRight(_)
StripRight(s) ==
    IF s = <<>> THEN <<>>
    ELSE IF IsSpace(Last(s)) THEN StripRight(Front(s)) ELSE s

Strip(s) == StripRight(StripLeft(s))

\* ------------------------------------------------------------- extraction
\* A file name is the sequence of its '.'-separated parts:
\* "a.TXT" is <<"a", "TXT">>, "txt" (no dot) is <<"txt">>.
\* filename.lower().split('.')[-1]
FileExtension(filename) == Last(LowerSeq(filename))

SUPPORTED == {"pdf", "docx", "doc", "txt"}

\* filename.lower().endswith('.' + ext)
EndsWith(filename, ext) ==
    /\ Len(filename) >= 2
    /\ Last(LowerSeq(filename)) = ext

\* Each extractor returns the stripped text, or "" when parsing raises.
extract_text_from_pdf(file) ==
    IF file.parseRaises THEN <<>> ELSE Strip(file.raw)

extract_text_from_docx(file) ==
    IF file.parseRaises THEN <<>> ELSE Strip(file.raw)

extract_text_from_txt(file) ==
    IF file.parseRaises THEN <<>> ELSE Strip(file.raw)

extract_text_from_file(file) ==
    IF EndsWith(file.filename, "pdf") THEN extract_text_from_pdf(file)
    ELSE IF EndsWith(file.filename, "docx") THEN extract_text_from_docx(file)
    ELSE IF EndsWith(file.filename, "doc") THEN extract_text_from_docx(file)
    ELSE IF EndsWith(file.filename, "txt") THEN extract_text_from_txt(file)
    ELSE <<>>

\* ------------------------------------------------------------- vectorizer
\* TfidfVectorizer's default analyzer: lowercase, tokens are the maximal
\* runs of word characters of length >= 2 (token_pattern \b\w\w+\b).
KeepToken(run) == Len(run) >= 2

RECURSIVE TokenizeFrom(_, _)
TokenizeFrom(s, run) ==
    IF s = <<>>
    THEN IF KeepToken(run) THEN <<run>> ELSE <<>>
    ELSE IF IsSpace(Head(s))
         THEN (IF KeepToken(run) THEN <<run>> ELSE <<>>)
              \o TokenizeFrom(Tail(s), <<>>)
         ELSE TokenizeFrom(Tail(s), Append(run, Head(s)))

Tokenize(text) == TokenizeFrom(LowerSeq(text), <<>>)

\* ngram_range = (1, 2): every token and every pair of adjacent tokens.
NGrams(text) ==
    LET t == Tokenize(text)
    IN  [x \in 1..Len(t) |-> <<t[x]>>]
        \o [x \in 1..(Len(t) - 1) |-> <<t[x], t[x + 1]>>]

\* The analysed corpus: grams[d] is the n-gram list of document d.
Analyze(texts) == [d \in DOMAIN texts |-> NGrams(texts[d])]

Vocabulary(grams) == UNION {Range(grams[d]) : d \in DOMAIN grams}

TermFrequency(g, f) == Cardinality({x \in DOMAIN g : g[x] = f})

DocumentFrequency(grams, f) ==
    Cardinality({d \in DOMAIN grams : TermFrequency(grams[d], f) > 0})

\* 10 * ln(m), rounded.
Ln10(m) ==
    CASE m = 1 -> 0
      [] m = 2 -> 7
      [] m = 3 -> 11
      [] m = 4 -> 14
      [] m = 5 -> 16
      [] m = 6 -> 18
      [] m = 7 -> 19
      [] OTHER -> 21

\* smooth idf: ln((1 + N) / (1 + df)) + 1, in tenths.
Idf(grams, f) ==
    Ln10(1 + Len(grams)) - Ln10(1 + DocumentFrequency(grams, f)) + 10

\* Rows of tf * idf weights over the vocabulary (l2 normalisation is
\* folded into Cosine, which is invariant under it).
TfIdf(grams) ==
    LET V == Vocabulary(grams)
        idf == [f \in V |-> Idf(grams, f)]
    IN  [d \in DOMAIN grams |->
            [f \in V |-> TermFrequency(grams[d], f) * idf[f]]]

Dot(u, v) == SumSet(DOMAIN u, [f \in DOMAIN u |-> u[f] * v[f]])

\* Largest r with r * r <= x.
RECURSIVE ISqrtIn(_, _, _)
ISqrtIn(x, lo, hi) ==
    IF lo >= hi THEN lo
    ELSE LET mid == (lo + hi + 1) \div 2
         IN  IF mid * mid <= x THEN ISqrtIn(x, mid, hi)
             ELSE ISqrtIn(x, lo, mid - 1)

ISqrt(x) == ISqrtIn(x, 0, 46340)

\* Cosine of rows u and v, times 10^5; a zero row stays zero under
\* normalisation and has cosine 0 with every row, itself included.
Cosine(u, v) ==
    LET nu == Dot(u, u)
        nv == Dot(v, v)
    IN  IF nu = 0 \/ nv = 0 THEN 0
        ELSE (100000 * Dot(u, v)) \div ISqrt(nu * nv)

cosine_similarity(X) ==
    [a \in DOMAIN X |-> [b \in DOMAIN X |-> Cosine(X[a], X[b])]]

\* Variant: an empty vocabulary gives an all-zero matrix.
calculate_similarity_unguarded(texts) ==
    IF Len(texts) < 2 THEN <<>>
    ELSE cosine_similarity(TfIdf(Analyze(texts)))

\* fit_transform raises ValueError on an empty vocabulary; the except
\* clause turns that into the empty list.
calculate_similarity(texts) ==
    IF Len(texts) < 2 THEN <<>>
    ELSE LET grams == Analyze(texts)
         IN  IF Vocabulary(grams) = {} THEN <<>>
             ELSE cosine_similarity(TfIdf(grams))

\* ------------------------------------------------------------------ ranker
\* Variant: the score is not converted to a percentage.
PercentUnscaled(score) == score

\* similarity_matrix[i][j] * 100
Percent(score) == score * 100

\* round(x, 2): nearest hundredth, ties to even; result in hundredths.
Round2(p) ==
    LET q == p \div 1000
        r == p % 1000
    IN  IF r > 500 THEN q + 1
        ELSE IF r < 500 THEN q
        ELSE IF q % 2 = 0 THEN q ELSE q + 1

\* Variant: no threshold.
KeepEveryPair(similarity_score) == TRUE

\* Variant: the threshold applied to the rounded percentage.
KeepPairRounded(similarity_score) ==
    Round2(similarity_score) >= THRESHOLD * 100

\* if similarity_score >= 40
KeepPair(similarity_score) == similarity_score >= THRESHOLD * 100000

\* Variant: range(i, n).
FirstJFromSelf(i) == i

\* range(i + 1, n): first j of row i.
FirstJ(i) == i + 1

\* list.sort(key=similarity, reverse=True): stable, larger keys first.
RECURSIVE InsertDesc(_, _)
InsertDesc(sorted, r) ==
    IF sorted = <<>> THEN <<r>>
    ELSE IF Head(sorted).similarity >= r.similarity
         THEN <<Head(sorted)>> \o InsertDesc(Tail(sorted), r)
         ELSE <<r>> \o sorted

\* Variant: a descending sort that reverses equal keys.
RECURSIVE InsertDescUnstable(_, _)
InsertDescUnstable(sorted, r) ==
    IF sorted = <<>> THEN <<r>>
    ELSE IF Head(sorted).similarity > r.similarity
         THEN <<Head(sorted)>> \o InsertDescUnstable(Tail(sorted), r)
         ELSE <<r>> \o sorted

RECURSIVE SortDescUnstable(_)
SortDescUnstable(rs) ==
    IF rs = <<>> THEN <<>>
    ELSE InsertDescUnstable(SortDescUnstable(Front(rs)), Last(rs))

RECURSIVE SortDesc(_)
SortDesc(rs) ==
    IF rs = <<>> THEN <<>>
    ELSE InsertDesc(SortDesc(Front(rs)), Last(rs))

\* ------------------------------------------------------------ request state
VARIABLES
    files,              \* request.files.getlist('files')
    pc,                 \* position of the handler
    k,                  \* index of the next file of "for file in files"
    documents,          \* texts of the corpus
    file_names,         \* file names of the corpus
    similarity_matrix,  \* result of calculate_similarity
    i, j,               \* indices of the ranking loops (1-based)
    results,            \* result pairs; fields i, j record the matrix indices
    response,           \* the HTTP response, once returned
    origin,             \* history: upload position of each corpus entry
    visited,            \* history: upload positions the loop body ran for
    reads,              \* history: upload positions whose file.read() was called
    extracted,          \* history: positions passed to extract_text_from_file
    simCalls            \* history: number of calls of calculate_similarity

vars == <<files, pc, k, documents, file_names, similarity_matrix, i, j,
          results, response, origin, visited, reads, extracted, simCalls>>

\* ------------------------------------------------------------------ inputs
CAT == <<"t", "h", "e", " ", "c", "a", "t", " ", "s", "a", "t">>

CAT_PADDED == <<" ">> \o CAT \o <<"\n">>

CAT_TITLE == <<"T", "h", "e", " ", "c", "a", "t", " ", "s", "a", "t">>

ABCD == <<"a", "a", " ", "b", "b", " ", "c", "c", " ", "d", "d">>

ABCE == <<"a", "a", " ", "b", "b", " ", "c", "c", "\n", "e", "e">>

LETTER == <<"a">>

BLANK == <<" ", "\n">>

File(name, raw, readRaises, parseRaises) ==
    [filename |-> name, raw |-> raw,
     readRaises |-> readRaises, parseRaises |-> parseRaises]

BlankFile == File(<<"blank", "txt">>, BLANK, FALSE, FALSE)

FileSet ==
    { File(<<"cat", "txt">>, CAT, FALSE, FALSE),
      File(<<"copy", "TXT">>, CAT_PADDED, FALSE, FALSE),
      File(<<"title", "docx">>, CAT_TITLE, FALSE, FALSE),
      File(<<"abcd", "pdf">>, ABCD, FALSE, FALSE),
      File(<<"abce", "doc">>, ABCE, FALSE, FALSE),
      File(<<"one", "txt">>, LETTER, FALSE, FALSE),
      BlankFile,
      File(<<"bad", "PDF">>, CAT, FALSE, TRUE),
      File(<<"lost", "txt">>, CAT, TRUE, FALSE),
      File(<<"tool", "exe">>, CAT, FALSE, FALSE),
      File(<<"txt">>, CAT, FALSE, FALSE) }

Uploads ==
    UNION {[1..n -> FileSet] : n \in 0..MaxUpload}
    \cup {[x \in 1..MAX_FILES |-> BlankFile],
          [x \in 1..(MAX_FILES + 1) |-> BlankFile]}

\* --------------------------------------------------------------- responses
NO_FILES == "Nenhum arquivo enviado"
TOO_FEW_FILES == "Envie pelo menos 2 arquivos"
TOO_MANY_FILES == "Maximo de 100 arquivos permitidos"
INSUFFICIENT_DOCUMENTS == "Nao foi possivel extrair texto de arquivos suficientes"
SIMILARITY_ERROR == "Erro ao calcular similaridades"

NoResponse == [status |-> 0]

ErrorResponse(status, message) ==
    [status |-> status, body |-> [error |-> message]]

\* The JSON results carry file1, file2 and similarity only.
ResultJson(r) ==
    [file1 |-> r.file1, file2 |-> r.file2, similarity |-> r.similarity]

SuccessResponse(names, rs) ==
    [status |-> 200,
     body |-> [success |-> TRUE,
               total_files |-> Len(names),
               comparisons |-> Len(rs),
               results |-> [x \in DOMAIN rs |-> ResultJson(rs[x])]]]

\* ------------------------------------------------------------------ guards
\* 'files' not in request.files: the key exists iff a file was sent under it.
NoFilesSent(fs) == Len(fs) = 0

TooFewFiles(fs) == Len(fs) < MIN_FILES

\* Variant: off by one.
TooManyFilesOffByOne(fs) == Len(fs) > MAX_FILES + 1

TooManyFiles(fs) == Len(fs) > MAX_FILES

\* if file_extension in ['pdf', 'docx', 'doc', 'txt']
Supported(file) == FileExtension(file.filename) \in SUPPORTED

\* Variant: empty texts are kept.
HasTextAlways(text) == TRUE

\* if text:
HasText(text) == text # <<>>

\* Variant: off by one.
InsufficientDocumentsOffByOne(docs) == Len(docs) < MIN_DOCUMENTS - 1

InsufficientDocuments(docs) == Len(docs) < MIN_DOCUMENTS

\* if len(similarity_matrix) == 0
MatrixEmpty(m) == Len(m) = 0

\* ------------------------------------------------------------------- Init
Init ==
    /\ files \in Uploads
    /\ pc = "start"
    /\ k = 0
    /\ documents = <<>>
    /\ file_names = <<>>
    /\ similarity_matrix = <<>>
    /\ i = 0
    /\ j = 0
    /\ results = <<>>
    /\ response = NoResponse
    /\ origin = <<>>
    /\ visited = {}
    /\ reads = {}
    /\ extracted = {}
    /\ simCalls = 0

\* --------------------------------------------------------- input validation
Return(r) ==
    /\ response' = r
    /\ pc' = "done"

RejectNoFiles ==
    /\ pc = "start"
    /\ NoFilesSent(files)
    /\ Return(ErrorResponse(400, NO_FILES))
    /\ UNCHANGED <<files, k, documents, file_names, similarity_matrix, i, j,
                   results, origin, visited, reads, extracted, simCalls>>

RejectTooFew ==
    /\ pc = "start"
    /\ ~NoFilesSent(files)
    /\ TooFewFiles(files)
    /\ Return(ErrorResponse(400, TOO_FEW_FILES))
    /\ UNCHANGED <<files, k, documents, file_names, similarity_matrix, i, j,
                   results, origin, visited, reads, extracted, simCalls>>

RejectTooMany ==
    /\ pc = "start"
    /\ ~NoFilesSent(files)
    /\ ~TooFewFiles(files)
    /\ TooManyFiles(files)
    /\ Return(ErrorResponse(400, TOO_MANY_FILES))
    /\ UNCHANGED <<files, k, documents, file_names, similarity_matrix, i, j,
                   results, origin, visited, reads, extracted, simCalls>>

BeginExtraction ==
    /\ pc = "start"
    /\ ~NoFilesSent(files)
    /\ ~TooFewFiles(files)
    /\ ~TooManyFiles(files)
    /\ pc' = "extract"
    /\ k' = 1
    /\ documents' = <<>>
    /\ file_names' = <<>>
    /\ UNCHANGED <<files, similarity_matrix, i, j, results, response, origin,
                   visited, reads, extracted, simCalls>>

\* --------------------------------------------------------- extraction loop
\* One iteration of "for file in files" per step.
SkipUnsupported ==
    /\ pc = "extract"
    /\ k <= Len(files)
    /\ ~Supported(files[k])
    /\ k' = k + 1
    /\ visited' = visited \cup {k}
    /\ UNCHANGED <<files, pc, documents, file_names, similarity_matrix, i, j,
                   results, response, origin, reads, extracted, simCalls>>

\* Variant: the exception of file.read() is not caught and ends the
\* request with the framework's 500 response.
ReadRaisesUncaught ==
    /\ pc = "extract"
    /\ k <= Len(files)
    /\ Supported(files[k])
    /\ files[k].readRaises
    /\ Return(ErrorResponse(500, "Internal Server Error"))
    /\ visited' = visited \cup {k}
    /\ reads' = reads \cup {k}
    /\ UNCHANGED <<files, k, documents, file_names, similarity_matrix, i, j,
                   results, origin, extracted, simCalls>>

\* file.read() raises: the except clause logs and the loop goes on.
ReadRaises ==
    /\ pc = "extract"
    /\ k <= Len(files)
    /\ Supported(files[k])
    /\ files[k].readRaises
    /\ k' = k + 1
    /\ visited' = visited \cup {k}
    /\ reads' = reads \cup {k}
    /\ UNCHANGED <<files, pc, documents, file_names, similarity_matrix, i, j,
                   results, response, origin, extracted, simCalls>>

ExtractText ==
    /\ pc = "extract"
    /\ k <= Len(files)
    /\ Supported(files[k])
    /\ ~files[k].readRaises
    /\ LET text == extract_text_from_file(files[k])
       IN  /\ HasText(text)
           /\ documents' = Append(documents, text)
           /\ file_names' = Append(file_names, files[k].filename)
           /\ origin' = Append(origin, k)
    /\ k' = k + 1
    /\ visited' = visited \cup {k}
    /\ reads' = reads \cup {k}
    /\ extracted' = extracted \cup {k}
    /\ UNCHANGED <<files, pc, similarity_matrix, i, j, results, response,
                   simCalls>>

ExtractNothing ==
    /\ pc = "extract"
    /\ k <= Len(files)
    /\ Supported(files[k])
    /\ ~files[k].readRaises
    /\ ~HasText(extract_text_from_file(files[k]))
    /\ k' = k + 1
    /\ visited' = visited \cup {k}
    /\ reads' = reads \cup {k}
    /\ extracted' = extracted \cup {k}
    /\ UNCHANGED <<files, pc, documents, file_names, similarity_matrix, i, j,
                   results, response, origin, simCalls>>

\* ------------------------------------------------------------- similarity
RejectInsufficient ==
    /\ pc = "extract"
    /\ k > Len(files)
    /\ InsufficientDocuments(documents)
    /\ Return(ErrorResponse(400, INSUFFICIENT_DOCUMENTS))
    /\ UNCHANGED <<files, k, documents, file_names, similarity_matrix, i, j,
                   results, origin, visited, reads, extracted, simCalls>>

ComputeSimilarity ==
    /\ pc = "extract"
    /\ k > Len(files)
    /\ ~InsufficientDocuments(documents)
    /\ similarity_matrix' = calculate_similarity(documents)
    /\ simCalls' = simCalls + 1
    /\ pc' = "matrix"
    /\ UNCHANGED <<files, k, documents, file_names, i, j, results, response,
                   origin, visited, reads, extracted>>

RejectEmptyMatrix ==
    /\ pc = "matrix"
    /\ MatrixEmpty(similarity_matrix)
    /\ Return(ErrorResponse(500, SIMILARITY_ERROR))
    /\ UNCHANGED <<files, k, documents, file_names, similarity_matrix, i, j,
                   results, origin, visited, reads, extracted, simCalls>>

\* ---------------------------------------------------------------- ranking
\* Position of the nested loops: the first row at or after row whose inner
\* range is not empty, or row n + 1 when the loops are over.
RECURSIVE RowFrom(_, _)
RowFrom(row, n) ==
    IF row > n THEN n + 1
    ELSE IF FirstJ(row) <= n THEN row
    ELSE RowFrom(row + 1, n)

BeginRanking ==
    /\ pc = "matrix"
    /\ ~MatrixEmpty(similarity_matrix)
    /\ results' = <<>>
    /\ i' = RowFrom(1, Len(file_names))
    /\ j' = FirstJ(i')
    /\ pc' = "rank"
    /\ UNCHANGED <<files, k, documents, file_names, similarity_matrix,
                   response, origin, visited, reads, extracted, simCalls>>

\* Leaves (i, j) at the next pair of the loops, or ends them.
Advance ==
    LET n == Len(file_names)
    IN  IF j + 1 <= n
        THEN /\ i' = i
             /\ j' = j + 1
             /\ pc' = "rank"
        ELSE /\ i' = RowFrom(i + 1, n)
             /\ j' = FirstJ(i')
             /\ pc' = IF i' <= n THEN "rank" ELSE "sort"

KeepResult ==
    /\ pc = "rank"
    /\ LET similarity_score == Percent(similarity_matrix[i][j])
       IN  /\ KeepPair(similarity_score)
           /\ results' = Append(results,
                  [file1 |-> file_names[i],
                   file2 |-> file_names[j],
                   similarity |-> Round2(similarity_score),
                   i |-> i, j |-> j])
    /\ Advance
    /\ UNCHANGED <<files, k, documents, file_names, similarity_matrix,
                   response, origin, visited, reads, extracted, simCalls>>

DropResult ==
    /\ pc = "rank"
    /\ ~KeepPair(Percent(similarity_matrix[i][j]))
    /\ Advance
    /\ UNCHANGED <<files, k, documents, file_names, similarity_matrix,
                   results, response, origin, visited, reads, extracted,
                   simCalls>>

SortResults ==
    /\ pc = "sort"
    /\ results' = SortDesc(results)
    /\ pc' = "respond"
    /\ UNCHANGED <<files, k, documents, file_names, similarity_matrix, i, j,
                   response, origin, visited, reads, extracted, simCalls>>

Respond ==
    /\ pc = "respond"
    /\ Return(SuccessResponse(file_names, results))
    /\ UNCHANGED <<files, k, documents, file_names, similarity_matrix, i, j,
                   results, origin, visited, reads, extracted, simCalls>>

Next ==
    \/ RejectNoFiles
    \/ RejectTooFew
    \/ RejectTooMany
    \/ BeginExtraction
    \/ SkipUnsupported
    \/ ReadRaises
    \/ ExtractText
    \/ ExtractNothing
    \/ RejectInsufficient
    \/ ComputeSimilarity
    \/ RejectEmptyMatrix
    \/ BeginRanking
    \/ KeepResult
    \/ DropResult
    \/ SortResults
    \/ Respond

Spec == Init /\ [][Next]_vars

\* ------------------------------------------------- ranking over any matrix
\* The ranker on its own: the handler right after calculate_similarity has
\* returned a non-empty matrix, for a corpus of n documents that followed
\* one blank upload.  The matrix ranges over all symmetric matrices with
\* entries in Scores and the diagonal the vectorizer gives a tokenised text.
Scores == {0, 39996, 40000, 40004, 40005, 100000}

RankNames == <<"r1", "r2", "r3", "r4", "r5", "r6", "r7", "r8">>

RankFile(x) == File(<<RankNames[x], "txt">>, CAT, FALSE, FALSE)

PairsOf(n) == {p \in (1..n) \X (1..n) : p[1] < p[2]}

SymmetricMatrix(n, u) ==
    [a \in 1..n |-> [b \in 1..n |->
        IF a = b THEN 100000
        ELSE IF a < b THEN u[<<a, b>>] ELSE u[<<b, a>>]]]

InitRank ==
    \E n \in 2..MaxDocs : \E u \in [PairsOf(n) -> Scores] :
        /\ files = <<BlankFile>> \o [x \in 1..n |-> RankFile(x)]
        /\ pc = "matrix"
        /\ k = n + 2
        /\ documents = [x \in 1..n |-> CAT]
        /\ file_names = [x \in 1..n |-> RankFile(x).filename]
        /\ similarity_matrix = SymmetricMatrix(n, u)
        /\ i = 0
        /\ j = 0
        /\ results = <<>>
        /\ response = NoResponse
        /\ origin = [x \in 1..n |-> x + 1]
        /\ visited = 1..(n + 1)
        /\ reads = 1..(n + 1)
        /\ extracted = 1..(n + 1)
        /\ simCalls = 1

NextRank ==
    \/ BeginRanking
    \/ KeepResult
    \/ DropResult
    \/ SortResults
    \/ Respond

SpecRank == InitRank /\ [][NextRank]_vars

\* ============================================================= properties
Min(a, b) == IF a <= b THEN a ELSE b

\* The extraction loop has run to its end.
ExtractionOver == pc # "start" /\ k > Len(files)

\* The index pair of a result.
IndexPair(r) == <<r.i, r.j>>

\* Lexicographic order of index pairs.
LexLess(p, q) == p[1] < q[1] \/ (p[1] = q[1] /\ p[2] < q[2])

Reported(a, b) == \E x \in DOMAIN results : IndexPair(results[x]) = <<a, b>>

ResultFields == {"results", "total_files", "comparisons"}

\* What the extraction loop got out of one upload: nothing unless the
\* extension is supported and the read succeeded.
ExtractedText(file) ==
    IF Supported(file) /\ ~file.readRaises
    THEN extract_text_from_file(file)
    ELSE <<>>

\* C1: the results never hold a pair (i, j) with i >= j, never hold the
\* same index pair twice (in either orientation), and never hold a pair
\* whose reported percentage is below 40.00.
C1_RankerSafety ==
    /\ \A x \in DOMAIN results :
           /\ results[x].i < results[x].j
           /\ results[x].similarity >= 4000
    /\ \A x, y \in DOMAIN results :
           x # y =>
               /\ IndexPair(results[x]) # IndexPair(results[y])
               /\ IndexPair(results[x]) # <<results[y].j, results[y].i>>

C1_Witness ==
    /\ pc = "done"
    /\ Len(file_names) = 3
    /\ Len(results) = 2
    /\ \E p \in PairsOf(3) :
           /\ ~Reported(p[1], p[2])
           /\ similarity_matrix[p[1]][p[2]] = 39996

\* C2 (as stated): any two corpus documents with identical text are
\* reported as a pair with similarity 100.00.
C2_Original ==
    (pc = "done" /\ ExtractionOver /\ Len(documents) >= 2) =>
        \A a, b \in DOMAIN documents :
            (a < b /\ documents[a] = documents[b]) =>
                /\ response.status = 200
                /\ \E x \in DOMAIN results :
                       /\ IndexPair(results[x]) = <<a, b>>
                       /\ results[x].similarity = 10000

\* C2 (amended): any two corpus documents with identical text that holds
\* at least one token (a run of two or more word characters) are reported
\* as a pair with similarity 100.00, under the names of those documents;
\* the corpus ["the cat sat", "the cat sat"] yields exactly that one pair.
C2_IdenticalTokenised ==
    (pc = "done" /\ ExtractionOver /\ Len(documents) >= 2) =>
        /\ \A a, b \in DOMAIN documents :
               (a < b /\ documents[a] = documents[b]
                      /\ Tokenize(documents[a]) # <<>>) =>
                   /\ response.status = 200
                   /\ \E x \in DOMAIN results :
                          /\ IndexPair(results[x]) = <<a, b>>
                          /\ results[x].similarity = 10000
                          /\ response.body.results[x] =
                                 [file1 |-> file_names[a],
                                  file2 |-> file_names[b],
                                  similarity |-> 10000]
        /\ documents = <<CAT, CAT>> =>
               /\ response.status = 200
               /\ response.body.results =
                      <<[file1 |-> file_names[1],
                         file2 |-> file_names[2],
                         similarity |-> 10000]>>

C2_Witness ==
    /\ pc = "done"
    /\ Len(documents) = 3
    /\ documents[1] = CAT
    /\ documents[3] = CAT
    /\ documents[2] = ABCD
    /\ Len(results) = 1
    /\ Reported(1, 3)

\* C3: fewer than 2 documents after the extraction loop: the request ends
\* with the 400 insufficient-documents error, calculate_similarity is never
\* called, and the response has no results, total_files or comparisons.
C3_InsufficientDocuments ==
    (ExtractionOver /\ Len(documents) < 2) =>
        /\ simCalls = 0
        /\ pc \in {"extract", "done"}
        /\ pc = "done" =>
               /\ response = ErrorResponse(400, INSUFFICIENT_DOCUMENTS)
               /\ DOMAIN response.body \cap ResultFields = {}

C3_Witness ==
    /\ pc = "done"
    /\ ExtractionOver
    /\ Len(documents) = 1
    /\ Len(files) = 3
    /\ response.status = 400

\* C4: more than 100 uploads, or fewer than 2: the request ends with the
\* 400 validation error (too many; too few, which for an upload of no file
\* at all is the no-file-sent message) and no file of the request is ever
\* visited, read or handed to an extractor.
C4_ValidationFirst ==
    (Len(files) > 100 \/ Len(files) < 2) =>
        /\ visited = {}
        /\ reads = {}
        /\ extracted = {}
        /\ pc \in {"start", "done"}
        /\ pc = "done" =>
               /\ response.status = 400
               /\ Len(files) > 100 =>
                      response.body = [error |-> TOO_MANY_FILES]
               /\ Len(files) = 1 =>
                      response.body = [error |-> TOO_FEW_FILES]
               /\ Len(files) = 0 =>
                      response.body = [error |-> NO_FILES]

C4_Witness ==
    /\ pc = "done"
    /\ Len(files) = 101
    /\ response = ErrorResponse(400, TOO_MANY_FILES)

\* C5: a file whose read or extraction fails does not end the request: the
\* loop visits every upload, the failing file is not in the corpus, and
\* the corpus (on which alone the rest of the request depends) is the one
\* the same uploads give when each failing file is an empty file instead.
Fails(file) == Supported(file) /\ (file.readRaises \/ file.parseRaises)

AsEmpty(file) ==
    IF Fails(file) THEN File(file.filename, <<>>, FALSE, FALSE) ELSE file

RECURSIVE CorpusOf(_)
CorpusOf(fs) ==
    IF fs = <<>> THEN <<>>
    ELSE LET text == ExtractedText(Last(fs))
         IN  IF text # <<>>
             THEN Append(CorpusOf(Front(fs)),
                         [text |-> text, name |-> Last(fs).filename])
             ELSE CorpusOf(Front(fs))

C5_FailureIsolated ==
    /\ pc = "extract" => visited = 1..(k - 1)
    /\ (pc = "done" /\ Len(files) \in 2..100) => ExtractionOver
    /\ ExtractionOver =>
           LET c == CorpusOf([x \in DOMAIN files |-> AsEmpty(files[x])])
           IN  /\ visited = 1..Len(files)
               /\ \A x \in DOMAIN files :
                      Fails(files[x]) => x \notin Range(origin)
               /\ documents = [x \in DOMAIN c |-> c[x].text]
               /\ file_names = [x \in DOMAIN c |-> c[x].name]
               /\ pc = "done" => response.status \in {200, 400, 500}

C5_Witness ==
    /\ pc = "done"
    /\ response.status = 200
    /\ Len(files) = 3
    /\ files[1].parseRaises
    /\ Len(results) = 1
    /\ origin = <<2, 3>>

\* C6: the corpus is the uploads with non-empty extracted text, in upload
\* order; documents and file_names have equal length and entry x of both
\* comes from the same upload, as do matrix row x and the reported names.
C6_CorpusIsFilteredUpload ==
    /\ Len(documents) = Len(file_names)
    /\ Len(origin) = Len(documents)
    /\ \A x \in DOMAIN origin :
           /\ origin[x] \in DOMAIN files
           /\ documents[x] = ExtractedText(files[origin[x]])
           /\ file_names[x] = files[origin[x]].filename
           /\ x > 1 => origin[x - 1] < origin[x]
    /\ Range(origin) =
           {x \in 1..Min(k - 1, Len(files)) : ExtractedText(files[x]) # <<>>}
    /\ ~MatrixEmpty(similarity_matrix) =>
           Len(similarity_matrix) = Len(documents)
    /\ \A x \in DOMAIN results :
           /\ results[x].file1 = files[origin[results[x].i]].filename
           /\ results[x].file2 = files[origin[results[x].j]].filename
           /\ results[x].similarity =
                  Round2(Percent(similarity_matrix[results[x].i][results[x].j]))

C6_Witness ==
    /\ pc = "done"
    /\ response.status = 200
    /\ Len(files) = 3
    /\ origin = <<1, 3>>
    /\ ~files[2].readRaises
    /\ ~files[2].parseRaises
    /\ Supported(files[2])
    /\ Len(results) = 1

\* C7: in a successful response comparisons is the number of results, which
\* is the number of pairs i < j whose percentage (score * 100) is at least
\* 40, and total_files is the size of the corpus.
C7_Counts ==
    (pc = "done" /\ response.status = 200) =>
        /\ response.body.comparisons = Len(response.body.results)
        /\ response.body.comparisons =
               Cardinality({p \in PairsOf(Len(documents)) :
                   similarity_matrix[p[1]][p[2]] * 100 >= 40 * 100000})
        /\ response.body.total_files = Len(documents)

C7_Witness ==
    /\ pc = "done"
    /\ response.status = 200
    /\ response.body.total_files = 3
    /\ Len(files) = 4
    /\ response.body.comparisons = 1

\* C8: the vectorizer fails on a corpus of 2 or more documents (no document
\* holds a token): the request ends with the 500 error, without results,
\* total_files or comparisons, the ranking loops are never entered and
\* calculate_similarity is called once.
C8_VectorizationFails ==
    (ExtractionOver /\ Len(documents) >= 2
                    /\ Vocabulary(Analyze(documents)) = {}) =>
        /\ simCalls <= 1
        /\ i = 0
        /\ results = <<>>
        /\ pc \in {"extract", "matrix", "done"}
        /\ pc = "done" =>
               /\ response = ErrorResponse(500, SIMILARITY_ERROR)
               /\ DOMAIN response.body \cap ResultFields = {}

C8_Witness ==
    /\ pc = "done"
    /\ Len(documents) = 3
    /\ simCalls = 1
    /\ response.status = 500

\* C9: the returned results are in non-increasing order of reported
\* similarity, and entries of equal reported similarity are in increasing
\* lexicographic order of (i, j); the response lists them in that order.
C9_StableDescending ==
    pc \in {"respond", "done"} =>
        /\ \A x, y \in DOMAIN results :
               x < y =>
                   /\ results[x].similarity >= results[y].similarity
                   /\ results[x].similarity = results[y].similarity =>
                          LexLess(IndexPair(results[x]), IndexPair(results[y]))
        /\ (pc = "done" /\ response.status = 200) =>
               response.body.results =
                   [x \in DOMAIN results |-> ResultJson(results[x])]

C9_Witness ==
    /\ pc = "done"
    /\ Len(results) = 3
    /\ results[1].similarity = 10000
    /\ IndexPair(results[1]) = <<2, 3>>
    /\ results[2].similarity = 4000
    /\ results[3].similarity = 4000
    /\ similarity_matrix[1][2] # similarity_matrix[1][3]

\* C10 (as stated): a pair i < j is reported if and only if its percentage
\* rounded to 2 decimals is at least 40.00.
C10_Original ==
    (pc = "done" /\ response.status = 200) =>
        \A p \in PairsOf(Len(file_names)) :
            Reported(p[1], p[2]) <=>
                Round2(similarity_matrix[p[1]][p[2]] * 100) >= 4000

\* C10 (amended): the threshold is applied to the percentage before it is
\* rounded: a pair i < j is reported if and only if score * 100 >= 40, and
\* it is reported with that percentage rounded to 2 decimals.
C10_ThresholdBeforeRounding ==
    (pc = "done" /\ response.status = 200) =>
        \A p \in PairsOf(Len(file_names)) :
            /\ Reported(p[1], p[2]) <=>
                   similarity_matrix[p[1]][p[2]] * 100 >= 40 * 100000
            /\ \A x \in DOMAIN results :
                   IndexPair(results[x]) = p =>
                       results[x].similarity =
                           Round2(similarity_matrix[p[1]][p[2]] * 100)

C10_Witness ==
    /\ pc = "done"
    /\ response.status = 200
    /\ Len(file_names) = 3
    /\ similarity_matrix[1][2] = 39996
    /\ ~Reported(1, 2)
    /\ similarity_matrix[1][3] = 40004
    /\ Reported(1, 3)
    /\ similarity_matrix[2][3] = 0
    /\ results[1].similarity = 4000

====
